---- MODULE Spec2Model ----
(***************************************************************************)
(* A model of scripts/mock_stratum_server.py (MockStratumServer): the      *)
(* accept loop, one handler thread per connection, the job broadcaster     *)
(* thread, and the shared fields they read and write without a lock.       *)
(* Every access to a shared field is one step, so that `x += 1` is a read  *)
(* followed by a write and `if c in l: l.remove(c)` is a test followed by  *)
(* a removal.                                                              *)
(***************************************************************************)
EXTENDS Integers, Sequences, FiniteSets, TLC

\* ------------------------------------------------------------------ bounds
\* Sockets accepted, timer expiries, lines received (over all connections),
\* idle timeouts, connections closed by their miner, short writes.
MaxConns == 2
MaxTicks == 2
MaxLines == 2
MaxTimeouts == 1
MaxCloses == 1
MaxShorts == 1
OneTick == 1
OneLine == 1
ThreeLines == 3
SessionLines == 4
MaxBytes == 4
MaxRpcs == 5

\* --------------------------------------------------------------- constants
InitialDifficulty == 1000000
HeightBase == 1000000
Extranonce2Size == 4
ExtranonceWidth == 8
JobIdWidth == 6
InvalidParams == -1
MethodNotFound == -32601

Null == "null"
Conns == 1..MaxConns

\* ----------------------------------------------------------------- strings
\* A Python str is a sequence of one-character strings.
HexChars == <<"0","1","2","3","4","5","6","7","8","9","a","b","c","d","e","f">>

RECURSIVE Digits(_, _)
Digits(n, base) ==
    IF n < base THEN <<HexChars[n + 1]>>
    ELSE Append(Digits(n \div base, base), HexChars[(n % base) + 1])

RECURSIVE ZeroPad(_, _)
ZeroPad(s, width) == IF Len(s) >= width THEN s ELSE ZeroPad(<<"0">> \o s, width)

\* str(session_id)
str(n) == Digits(n, 10)

\* f"{session_id:08x}"
Extranonce1(session) == ZeroPad(Digits(session, 16), ExtranonceWidth)

\* A job id without the zero padding.
JobIdOfUnpadded(n) == <<"j","o","b","_">> \o Digits(n, 10)

\* f"job_{self.current_job_id:06d}"
JobIdOf(n) == <<"j","o","b","_">> \o ZeroPad(Digits(n, 10), JobIdWidth)

\* The number a job id encodes: the decimal digits after "job_".
DigitValue(ch) == CHOOSE d \in 0..9 : HexChars[d + 1] = ch
RECURSIVE DecValue(_)
DecValue(s) == IF s = <<>> THEN 0 ELSE 10 * DecValue(SubSeq(s, 1, Len(s) - 1)) + DigitValue(s[Len(s)])
JobNumber(job_id) == DecValue(SubSeq(job_id, 5, Len(job_id)))

\* sha256(f"header_{job_id}") * 7, cut to 224 characters: a function of the job id.
HeaderOf(job_id) == <<"sha256">> \o job_id
Target == <<"00000000000000ffff", "0*46">>

\* The dict create_job returns, from the counter value read for the id (line 75)
\* and the counter value read for the height (line 92).
create_job(job_id, counter) ==
    [id |-> job_id, header |-> HeaderOf(job_id), target |-> Target,
     height |-> HeightBase + counter, clean_jobs |-> TRUE]
NoJob == [id |-> <<>>, header |-> <<>>, target |-> <<>>, height |-> 0, clean_jobs |-> FALSE]

\* ---------------------------------------------------------------- messages
\* An outgoing JSON object (send_result 223-229, send_error 231-237, send_notify
\* 239-252, the set_difficulty dict 145-149). `kind` is the shape (response or
\* notification). `id` is <<n>> for the number n and <<>> for null. `result` is
\* the result of a response or the params of a notification, a value v with
\* its type t; `error` is <<>> for null. `job` and `tick` say which job a
\* mining.notify carries and which tick sent it (0: a handler).
NullId == <<>>
NoError == <<>>
\* A result response that does not carry the request's id.
send_result_noid(req_id, tag, result) ==
    [kind |-> "response", id |-> NullId, method |-> Null, tag |-> tag,
     result |-> [t |-> tag, v |-> result], error |-> NoError, job |-> NoJob, tick |-> 0]
send_result(req_id, tag, result) ==
    [kind |-> "response", id |-> <<req_id>>, method |-> Null, tag |-> tag,
     result |-> [t |-> tag, v |-> result], error |-> NoError, job |-> NoJob, tick |-> 0]
\* An error response whose error is the pair [code, message].
send_error_pair(req_id, code, message) ==
    [kind |-> "response", id |-> <<req_id>>, method |-> Null, tag |-> "null",
     result |-> [t |-> "null", v |-> Null], error |-> <<code, message>>,
     job |-> NoJob, tick |-> 0]
send_error(req_id, code, message) ==
    [kind |-> "response", id |-> <<req_id>>, method |-> Null, tag |-> "null",
     result |-> [t |-> "null", v |-> Null], error |-> <<code, message, Null>>,
     job |-> NoJob, tick |-> 0]
send_notify(job, tick) ==
    [kind |-> "notification", id |-> NullId, method |-> "mining.notify", tag |-> "params",
     result |-> [t |-> "job", v |-> <<job.id, job.header, job.target, job.height,
                                      job.clean_jobs>>],
     error |-> NoError, job |-> job, tick |-> tick]
set_difficulty(d) ==
    [kind |-> "notification", id |-> NullId, method |-> "mining.set_difficulty",
     tag |-> "params", result |-> [t |-> "difficulty", v |-> <<d>>], error |-> NoError,
     job |-> NoJob, tick |-> 0]
NoMsg == send_result(0, "null", Null)

\* A subscribe result that gives the session id where extranonce1 belongs.
SubscribeResultSid(session, extranonce1) ==
    << << <<"mining.notify", str(session)>>, <<"mining.set_difficulty", str(session)>> >>,
       str(session), Extranonce2Size >>

\* The result of mining.subscribe (lines 134-141).
SubscribeResult(session, extranonce1) ==
    << << <<"mining.notify", str(session)>>, <<"mining.set_difficulty", str(session)>> >>,
       extranonce1, Extranonce2Size >>

\* ------------------------------------------------------------------ inputs
\* A JSON value inside params: a string (its characters) or a number.
Str(chars) == [t |-> "str", v |-> chars]
Num(chars) == [t |-> "num", v |-> chars]
\* params: a JSON array ("list"), missing ("absent": req.get gives [], falsy, and
\* len() is 0), null ("null": None, falsy, no len()), or a number ("scalar":
\* truthy, no [0], no len()).
List(items) == [shape |-> "list", items |-> items]
Absent == [shape |-> "absent", items |-> <<>>]
NullParams == [shape |-> "null", items |-> <<>>]
Scalar == [shape |-> "scalar", items |-> <<>>]

AddrDotWorker == <<"a","d","d","r",".","w","k">>
AddrOnly == <<"a","d","d","r">>
AddrTwoDots == <<"a",".","w",".","x">>
Field == Str(<<"f">>)

Request(method, params) == [kind |-> "request", method |-> method, params |-> params]
BlankLine == [kind |-> "blank", method |-> "", params |-> Absent]
BadJsonLine == [kind |-> "badjson", method |-> "", params |-> Absent]
\* Valid JSON that is not an object (a list, a number): req.get raises AttributeError.
NonObjectLine == [kind |-> "nonobject", method |-> "", params |-> Absent]

Subscribe == Request("mining.subscribe", List(<<Str(<<"m">>)>>))
SubscribeScalar == Request("mining.subscribe", Scalar)
AuthorizeDot == Request("mining.authorize", List(<<Str(AddrDotWorker), Str(<<"x">>)>>))
AuthorizeNoDot == Request("mining.authorize", List(<<Str(AddrOnly)>>))
AuthorizeTwoDots == Request("mining.authorize", List(<<Str(AddrTwoDots)>>))
AuthorizeAbsent == Request("mining.authorize", Absent)
AuthorizeNumber == Request("mining.authorize", List(<<Num(<<"7">>)>>))
Submit3 == Request("mining.submit", List(<<Field, Field, Field>>))
Submit4 == Request("mining.submit", List(<<Field, Field, Field, Str(<<"n","4">>)>>))
Submit5 == Request("mining.submit", List(<<Field, Field, Field, Str(<<"t">>), Str(<<"n","5">>)>>))
Submit6 == Request("mining.submit",
                   List(<<Field, Field, Field, Str(<<"t">>), Str(<<"n","5">>), Str(<<"z">>)>>))
SubmitScalar == Request("mining.submit", Scalar)
SubmitNull == Request("mining.submit", NullParams)
AuthorizeNull == Request("mining.authorize", NullParams)
Ping == Request("mining.ping", Absent)
ExtranonceSubscribe == Request("mining.extranonce.subscribe", List(<<>>))
Unknown == Request("mining.unknown", Absent)

AllLines == {BlankLine, BadJsonLine, NonObjectLine, Subscribe, SubscribeScalar,
             AuthorizeDot, AuthorizeNoDot, AuthorizeTwoDots, AuthorizeAbsent,
             AuthorizeNull, AuthorizeNumber, Submit3, Submit4, Submit5, Submit6,
             SubmitScalar, SubmitNull, Ping, ExtranonceSubscribe, Unknown}

\* `params[0] if params else default` (lines 130, 153): the value, or "raise".
Raise == [t |-> "raise", v |-> <<>>]
FirstOrDefault(params, default) ==
    CASE params.shape \in {"absent", "null"} -> default
      [] params.shape = "scalar" -> Raise
      [] params.items = <<>> -> default
      [] OTHER -> params.items[1]

\* username.split('.', 1) (line 154): the part before the first dot and, when
\* there is a dot, the part after it.
FirstDot(s) == IF \E i \in 1..Len(s) : s[i] = "."
               THEN CHOOSE i \in 1..Len(s) : s[i] = "." /\ \A j \in 1..(i - 1) : s[j] # "."
               ELSE 0
\* A split at the last dot.
LastDot(s) == IF \E i \in 1..Len(s) : s[i] = "."
              THEN CHOOSE i \in 1..Len(s) : s[i] = "." /\ \A j \in (i + 1)..Len(s) : s[j] # "."
              ELSE 0
rsplit(s) == IF LastDot(s) = 0 THEN <<s>>
             ELSE <<SubSeq(s, 1, LastDot(s) - 1), SubSeq(s, LastDot(s) + 1, Len(s))>>
split(s) == IF FirstDot(s) = 0 THEN <<s>>
            ELSE <<SubSeq(s, 1, FirstDot(s) - 1), SubSeq(s, FirstDot(s) + 1, Len(s))>>
DefaultWorker == <<"d","e","f","a","u","l","t">>
UnknownWorker == <<"u","n","k","n","o","w","n">>

\* ------------------------------------------------------------------- state
VARIABLES
    running,          \* self.running
    session_id,       \* self.session_id
    clients,          \* self.clients: the sockets, in append order
    current_job_id,   \* self.current_job_id
    difficulty,       \* self.difficulty
    apc,              \* the accept loop: "init", "loop", "stopped"
    nconn,            \* sockets accepted so far; socket k is the k-th accepted
    hpc,              \* hpc[k]: where socket k's handler thread is
    h,                \* h[k]: the locals of socket k's handler
    sock,             \* sock[k]: "none", "open", "closed" (client.close() ran)
    peer,             \* peer[k]: "up", "gone" (closed or reset by the miner)
    out,              \* out[k]: what sendall wrote to socket k, in order
    b,                \* the broadcaster thread: pc and locals
    minted,           \* every dict create_job returned, with its caller
    snaps,            \* snaps[t]: the copy self.clients[:] tick t iterates
    env,              \* what the environment will still do: env.ticks timer
                      \* expiries, env.lines lines sent by miners, env.shorts
                      \* short writes of the kernel, env.timeouts idle timeouts,
                      \* env.closes connections closed by their miner
    stream,           \* the bytes one miner sends on its connection, all of them
    rd,               \* how many of them recv has returned so far
    buffer,           \* `buffer` of that connection's handler (line 103)
    dispatched,       \* the lines that handler has passed to json.loads, in order
    fpc,              \* that handler: "recv", "raised", "eof"
    height,           \* MockTOSNode.height of the mock chain node
    topoheight,       \* MockTOSNode.topoheight
    rpc               \* the last RPC the node handled: method, result, count

\* The byte-level reader of one connection, and the mock chain node.
reader == <<stream, rd, buffer, dispatched, fpc>>
node == <<height, topoheight, rpc>>

vars == <<running, session_id, clients, current_job_id, difficulty, apc, nconn,
          hpc, h, sock, peer, out, b, minted, snaps, env, reader, node>>


NoLocals == [session_id |-> 0, extranonce1 |-> <<>>, extranonce2_size |-> 0,
             authorized |-> FALSE, worker |-> <<>>, address |-> <<>>, nonce |-> <<>>,
             tmp |-> 0, job_id |-> <<>>, job |-> NoJob, line |-> BlankLine,
             rest |-> NoMsg, ret |-> "", lines |-> 0, why |-> ""]

\* The stratum server after __init__ (lines 19-26), with what the environment
\* will do.
InitServer(ticks, lines, shorts, timeouts, closes) ==
    /\ running = FALSE
    /\ session_id = 0
    /\ clients = <<>>
    /\ current_job_id = 0
    /\ difficulty = InitialDifficulty
    /\ apc = "init"
    /\ nconn = 0
    /\ hpc = [k \in Conns |-> "none"]
    /\ h = [k \in Conns |-> NoLocals]
    /\ sock = [k \in Conns |-> "none"]
    /\ peer = [k \in Conns |-> "up"]
    /\ out = [k \in Conns |-> <<>>]
    /\ b = [pc |-> "none", tmp |-> 0, job_id |-> <<>>, job |-> NoJob, snap |-> <<>>,
            cur |-> 0, rest |-> NoMsg, tick |-> 0]
    /\ minted = {}
    /\ snaps = <<>>
    /\ env = [ticks |-> ticks, lines |-> lines, shorts |-> shorts,
              timeouts |-> timeouts, closes |-> closes]

\* No bytes to read.
NoStream ==
    /\ stream = <<>>
    /\ rd = 0
    /\ buffer = <<>>
    /\ dispatched = <<>>
    /\ fpc = "recv"

\* The class attributes of MockTOSNode (mock_tos_node.py, lines 26-27).
StartHeight == 1000000
NoRpc == [method |-> "", result |-> [t |-> "null", v |-> <<>>], count |-> 0]
InitChain ==
    /\ height = StartHeight
    /\ topoheight = StartHeight
    /\ rpc = NoRpc

InitWith(ticks, lines, shorts, timeouts, closes) ==
    /\ InitServer(ticks, lines, shorts, timeouts, closes)
    /\ NoStream
    /\ InitChain

\* list.remove(x): the list without its first x.
RECURSIVE remove(_, _)
remove(l, x) == IF l = <<>> THEN <<>>
                ELSE IF Head(l) = x THEN Tail(l)
                ELSE <<Head(l)>> \o remove(Tail(l), x)
In(x, l) == \E i \in 1..Len(l) : l[i] = x

\* A send() on an open socket hands its bytes to the kernel, also when the peer
\* has just gone; on a closed socket (EBADF) or a peer that is gone (EPIPE,
\* ECONNRESET) it raises.
CanSend(k) == sock[k] = "open"
SendRaises(k) == sock[k] # "open" \/ peer[k] = "gone"
Whole(m) == [msg |-> m, part |-> "all"]
HeadOf(m) == [msg |-> m, part |-> "head"]
TailOf(m) == [msg |-> m, part |-> "tail"]

\* --------------------------------------------------------- start, stop, accept
\* start(), lines 30-42: listen, set running, start the broadcaster thread.
Start ==
    /\ apc = "init"
    /\ running' = TRUE
    /\ apc' = "accept"
    /\ b' = [b EXCEPT !.pc = "sleep"]
    /\ UNCHANGED <<reader, node, session_id, clients, current_job_id, difficulty, nconn,
                   hpc, h, sock, peer, out, minted, snaps, env>>

\* stop(), lines 254-258: clear running and close the listening socket.
Stop ==
    /\ running
    /\ running' = FALSE
    /\ UNCHANGED <<reader, node, session_id, clients, current_job_id, difficulty, apc, nconn,
                   hpc, h, sock, peer, out, b, minted, snaps, env>>

\* `while self.running:` of the accept loop (line 44) finds running false, or
\* accept() raises because stop() closed the listening socket (lines 56-58) and
\* the test then finds running false. A thread at "accept" is blocked in accept()
\* or about to make the test; "loop" is the test once running is false.
AcceptLoop ==
    /\ apc \in {"loop", "accept"}
    /\ ~running
    /\ apc' = "stopped"
    /\ UNCHANGED <<reader, node, running, session_id, clients, current_job_id, difficulty, nconn,
                   hpc, h, sock, peer, out, b, minted, snaps, env>>

\* `while self.running:` reads running when the loop body ends: the thread goes
\* on to `blocked` (accept, recv, sleep), where a later stop() does not wake it,
\* or is at "loop" and leaves the loop.
LoopTest(blocked) == IF running THEN blocked ELSE "loop"

\* A session counter that follows the number of registered connections.
NextSessionIdLive(n) == Len(clients) + 1

\* The session id given to the next handler (line 48).
NextSessionId(n) == n + 1

\* Lines 46-55: accept() returns socket k; the counter is raised, the handler
\* thread is made with the counter's value, the socket is appended to
\* self.clients and the thread is started. Only this thread writes session_id,
\* and the handler cannot run before it is started, so this is one step.
\* Lines 98-103 are the handler's first statements.
Accept ==
    /\ apc = "accept"
    /\ nconn < MaxConns
    /\ LET k == nconn + 1
           sid == NextSessionId(session_id)
       IN /\ nconn' = k
          /\ session_id' = sid
          /\ clients' = Append(clients, k)
          /\ sock' = [sock EXCEPT ![k] = "open"]
          /\ hpc' = [hpc EXCEPT ![k] = LoopTest("recv")]
          /\ h' = [h EXCEPT ![k] = [NoLocals EXCEPT !.session_id = sid,
                                                   !.extranonce1 = Extranonce1(sid),
                                                   !.extranonce2_size = Extranonce2Size,
                                                   !.worker = UnknownWorker]]
    /\ apc' = LoopTest("accept")
    /\ UNCHANGED <<reader, node, running, current_job_id, difficulty, peer, out, b, minted, snaps, env>>

\* The miner closes or resets its end of connection k.
PeerCloses(k) ==
    /\ sock[k] = "open"
    /\ peer[k] = "up"
    /\ hpc[k] \notin {"done", "raised"}
    /\ env.closes > 0
    /\ env' = [env EXCEPT !.closes = @ - 1]
    /\ peer' = [peer EXCEPT ![k] = "gone"]
    /\ UNCHANGED <<reader, node, running, session_id, clients, current_job_id, difficulty, apc, nconn,
                   hpc, h, sock, out, b, minted, snaps>>

\* ------------------------------------------------------------- job_broadcaster
\* `while self.running:` (line 62) finds running false. A thread at "sleep" is
\* in time.sleep(30) or about to make the test.
BroadcasterLoop ==
    /\ b.pc \in {"loop", "sleep"}
    /\ ~running
    /\ b' = [b EXCEPT !.pc = "stopped"]
    /\ UNCHANGED <<reader, node, running, session_id, clients, current_job_id, difficulty, apc, nconn,
                   hpc, h, sock, peer, out, minted, snaps, env>>

\* A tick that does not look at the registry.
BroadcasterTickAlways ==
    /\ b.pc = "sleep"
    /\ env.ticks > 0
    /\ env' = [env EXCEPT !.ticks = @ - 1]
    /\ b' = [b EXCEPT !.tick = @ + 1, !.pc = "inc_read"]
    /\ snaps' = Append(snaps, <<>>)
    /\ UNCHANGED <<reader, node, running, session_id, clients, current_job_id, difficulty, apc, nconn,
                   hpc, h, sock, peer, out, minted>>

\* The sleep ends and `if self.clients:` is evaluated (line 64).
BroadcasterTick ==
    /\ b.pc = "sleep"
    /\ env.ticks > 0
    /\ env' = [env EXCEPT !.ticks = @ - 1]
    /\ b' = [b EXCEPT !.tick = @ + 1,
                      !.pc = IF clients # <<>> THEN "inc_read" ELSE LoopTest("sleep")]
    /\ snaps' = Append(snaps, <<>>)
    /\ UNCHANGED <<reader, node, running, session_id, clients, current_job_id, difficulty, apc, nconn,
                   hpc, h, sock, peer, out, minted>>

\* `self.current_job_id += 1` (line 65): the read ...
BroadcasterIncRead ==
    /\ b.pc = "inc_read"
    /\ b' = [b EXCEPT !.tmp = current_job_id, !.pc = "inc_write"]
    /\ UNCHANGED <<reader, node, running, session_id, clients, current_job_id, difficulty, apc, nconn,
                   hpc, h, sock, peer, out, minted, snaps, env>>

\* ... and the write.
BroadcasterIncWrite ==
    /\ b.pc = "inc_write"
    /\ current_job_id' = b.tmp + 1
    /\ b' = [b EXCEPT !.pc = "job_id", !.tmp = 0]
    /\ UNCHANGED <<reader, node, running, session_id, clients, difficulty, apc, nconn,
                   hpc, h, sock, peer, out, minted, snaps, env>>

\* create_job, line 75: the job id is formatted from the counter.
BroadcasterJobId ==
    /\ b.pc = "job_id"
    /\ b' = [b EXCEPT !.job_id = JobIdOf(current_job_id), !.pc = "job_height"]
    /\ UNCHANGED <<reader, node, running, session_id, clients, current_job_id, difficulty, apc, nconn,
                   hpc, h, sock, peer, out, minted, snaps, env>>

\* create_job, lines 88-94: the dict is built; the height reads the counter again.
BroadcasterJob ==
    /\ b.pc = "job_height"
    /\ LET job == create_job(b.job_id, current_job_id)
       IN /\ b' = [b EXCEPT !.job = job, !.job_id = <<>>, !.pc = "snapshot"]
          /\ minted' = minted \cup {[tick |-> b.tick, conn |-> 0, line |-> 0, job |-> job]}
    /\ UNCHANGED <<reader, node, running, session_id, clients, current_job_id, difficulty, apc, nconn,
                   hpc, h, sock, peer, out, snaps, env>>

\* An iteration over every socket accepted so far instead of a copy of the
\* registry.
BroadcasterSnapshotAccepted ==
    /\ b.pc = "snapshot"
    /\ b' = [b EXCEPT !.snap = [i \in 1..nconn |-> i], !.pc = "send"]
    /\ snaps' = [snaps EXCEPT ![b.tick] = clients]
    /\ UNCHANGED <<reader, node, running, session_id, clients, current_job_id, difficulty, apc, nconn,
                   hpc, h, sock, peer, out, minted, env>>

\* `for client in self.clients[:]` (line 67): the copy is taken.
BroadcasterSnapshot ==
    /\ b.pc = "snapshot"
    /\ b' = [b EXCEPT !.snap = clients, !.pc = "send"]
    /\ snaps' = [snaps EXCEPT ![b.tick] = clients]
    /\ UNCHANGED <<reader, node, running, session_id, clients, current_job_id, difficulty, apc, nconn,
                   hpc, h, sock, peer, out, minted, env>>

\* The loop is over: back to `while self.running`.
BroadcasterTickDone ==
    /\ b.pc = "send"
    /\ b.snap = <<>>
    /\ b' = [b EXCEPT !.pc = LoopTest("sleep"), !.cur = 0, !.job = NoJob]
    /\ UNCHANGED <<reader, node, running, session_id, clients, current_job_id, difficulty, apc, nconn,
                   hpc, h, sock, peer, out, minted, snaps, env>>

\* self.send_notify(client, job) (line 69) for the next socket of the copy:
\* sendall writes the whole message, or a first part of it, or raises.
BroadcasterSend ==
    /\ b.pc = "send"
    /\ b.snap # <<>>
    /\ LET k == Head(b.snap)
           m == send_notify(b.job, b.tick)
       IN \/ /\ CanSend(k)
             /\ out' = [out EXCEPT ![k] = Append(@, Whole(m))]
             /\ b' = [b EXCEPT !.snap = Tail(@), !.cur = k]
             /\ UNCHANGED env
          \/ /\ CanSend(k)
             /\ env.shorts > 0
             /\ env' = [env EXCEPT !.shorts = @ - 1]
             /\ out' = [out EXCEPT ![k] = Append(@, HeadOf(m))]
             /\ b' = [b EXCEPT !.snap = Tail(@), !.cur = k, !.rest = m, !.pc = "sendall"]
          \/ /\ SendRaises(k)
             /\ b' = [b EXCEPT !.snap = Tail(@), !.cur = k, !.pc = "remove"]
             /\ UNCHANGED <<out, env>>
    /\ UNCHANGED <<reader, node, running, session_id, clients, current_job_id, difficulty, apc, nconn,
                   hpc, h, sock, peer, minted, snaps>>

\* sendall's second send() after a short write.
BroadcasterSendRest ==
    /\ b.pc = "sendall"
    /\ \/ /\ CanSend(b.cur)
          /\ out' = [out EXCEPT ![b.cur] = Append(@, TailOf(b.rest))]
          /\ b' = [b EXCEPT !.rest = NoMsg, !.pc = "send"]
       \/ /\ SendRaises(b.cur)
          /\ b' = [b EXCEPT !.rest = NoMsg, !.pc = "remove"]
          /\ UNCHANGED out
    /\ UNCHANGED <<reader, node, running, session_id, clients, current_job_id, difficulty, apc, nconn,
                   hpc, h, sock, peer, minted, snaps, env>>

\* `except: self.clients.remove(client)` (lines 70-71). list.remove raises
\* ValueError when the socket is not in the list; nothing catches it and the
\* thread ends.
BroadcasterRemove ==
    /\ b.pc = "remove"
    /\ IF In(b.cur, clients)
       THEN /\ clients' = remove(clients, b.cur)
            /\ b' = [b EXCEPT !.pc = "send"]
       ELSE /\ b' = [b EXCEPT !.pc = "raised"]
            /\ UNCHANGED clients
    /\ UNCHANGED <<reader, node, running, session_id, current_job_id, difficulty, apc, nconn,
                   hpc, h, sock, peer, out, minted, snaps, env>>

\* --------------------------------------------------------------- handle_client
\* self.send_json(client, m) from socket k's handler, which goes on at `next`
\* with locals `loc`: sendall writes the whole message, or a first part of it
\* (the rest follows in HandlerSendRest), or raises, which ends the handler
\* through `except Exception` (line 209) and `finally`. `e` is the environment
\* left by the step.
HandlerSend(k, m, next, loc, e) ==
    \/ /\ CanSend(k)
       /\ out' = [out EXCEPT ![k] = Append(@, Whole(m))]
       /\ hpc' = [hpc EXCEPT ![k] = IF next = "loop" THEN LoopTest("recv") ELSE next]
       /\ h' = [h EXCEPT ![k] = loc]
       /\ env' = e
    \/ /\ CanSend(k)
       /\ e.shorts > 0
       /\ env' = [e EXCEPT !.shorts = @ - 1]
       /\ out' = [out EXCEPT ![k] = Append(@, HeadOf(m))]
       /\ hpc' = [hpc EXCEPT ![k] = "sendall"]
       /\ h' = [h EXCEPT ![k] = [loc EXCEPT !.rest = m, !.ret = next]]
    \/ /\ SendRaises(k)
       /\ hpc' = [hpc EXCEPT ![k] = "fin_check"]
       /\ h' = [h EXCEPT ![k] = [loc EXCEPT !.why = "send"]]
       /\ env' = e
       /\ UNCHANGED out

\* An exception other than JSONDecodeError while a line is handled: caught at
\* line 209, then `finally`.
HandlerRaises(k, loc, e) ==
    /\ hpc' = [hpc EXCEPT ![k] = "fin_check"]
    /\ h' = [h EXCEPT ![k] = [loc EXCEPT !.why = "error"]]
    /\ env' = e
    /\ UNCHANGED out

\* sendall's second send() after a short write.
HandlerSendRest(k) ==
    /\ hpc[k] = "sendall"
    /\ \/ /\ CanSend(k)
          /\ out' = [out EXCEPT ![k] = Append(@, TailOf(h[k].rest))]
          /\ hpc' = [hpc EXCEPT ![k] = IF h[k].ret = "loop" THEN LoopTest("recv")
                                        ELSE h[k].ret]
          /\ h' = [h EXCEPT ![k].rest = NoMsg, ![k].ret = ""]
       \/ /\ SendRaises(k)
          /\ hpc' = [hpc EXCEPT ![k] = "fin_check"]
          /\ h' = [h EXCEPT ![k].rest = NoMsg, ![k].ret = "", ![k].why = "send"]
          /\ UNCHANGED out
    /\ UNCHANGED <<reader, node, running, session_id, clients, current_job_id, difficulty, apc, nconn,
                   sock, peer, b, minted, snaps, env>>

\* `while self.running:` of the handler (line 108) finds running false. A
\* thread at "recv" is blocked in recv or about to make the test.
HandlerLoop(k) ==
    /\ hpc[k] \in {"loop", "recv"}
    /\ ~running
    /\ hpc' = [hpc EXCEPT ![k] = "fin_check"]
    /\ h' = [h EXCEPT ![k].why = "stopped"]
    /\ UNCHANGED <<reader, node, running, session_id, clients, current_job_id, difficulty, apc, nconn,
                   sock, peer, out, b, minted, snaps, env>>

\* recv returns b"" (lines 110-111) or raises (line 209): the peer is gone.
HandlerRecvEof(k) ==
    /\ hpc[k] = "recv"
    /\ peer[k] = "gone"
    /\ hpc' = [hpc EXCEPT ![k] = "fin_check"]
    /\ h' = [h EXCEPT ![k].why = "eof"]
    /\ UNCHANGED <<reader, node, running, session_id, clients, current_job_id, difficulty, apc, nconn,
                   sock, peer, out, b, minted, snaps, env>>

\* recv raises socket.timeout after 300 idle seconds (lines 106, 207).
HandlerTimeout(k) ==
    /\ hpc[k] = "recv"
    /\ peer[k] = "up"
    /\ env.timeouts > 0
    /\ env' = [env EXCEPT !.timeouts = @ - 1]
    /\ hpc' = [hpc EXCEPT ![k] = "fin_check"]
    /\ h' = [h EXCEPT ![k].why = "timeout"]
    /\ UNCHANGED <<reader, node, running, session_id, clients, current_job_id, difficulty, apc, nconn,
                   sock, peer, out, b, minted, snaps>>

\* A line that is not JSON ends the handler like any other exception.
HandlerSkipsFatal(k, loc, e) ==
    /\ hpc' = [hpc EXCEPT ![k] = "fin_check"]
    /\ h' = [h EXCEPT ![k] = [loc EXCEPT !.why = "error"]]
    /\ env' = e
    /\ UNCHANGED out

\* A blank line (`continue`, lines 117-118) or a line json.loads refuses
\* (JSONDecodeError, caught inside the loop at lines 204-205): nothing is sent
\* and the handler goes on with the next line.
HandlerSkips(k, loc, e) ==
    /\ hpc' = [hpc EXCEPT ![k] = LoopTest("recv")]
    /\ h' = [h EXCEPT ![k] = loc]
    /\ env' = e
    /\ UNCHANGED out

\* A subscribe result whose session string counts the lines read so far.
subscribePerLine(loc) == SubscribeResult(loc.session_id + loc.lines - 1, loc.extranonce1)

\* mining.subscribe, lines 134-141: the result is built from the handler's
\* session_id and extranonce1, which no line assigns.
subscribe(loc) == SubscribeResult(loc.session_id, loc.extranonce1)

\* An authorize that flips the flag.
authorizeToggle(loc, parts) ==
    [loc EXCEPT !.address = parts[1],
                !.worker = IF Len(parts) > 1 THEN parts[2] ELSE DefaultWorker,
                !.authorized = ~loc.authorized]

\* mining.authorize, lines 155-161: the locals after the username was split.
authorize(loc, parts) ==
    [loc EXCEPT !.address = parts[1],
                !.worker = IF Len(parts) > 1 THEN parts[2] ELSE DefaultWorker,
                !.authorized = TRUE]

\* Lines 115-205 for one line of input: the request is decoded and dispatched up
\* to its first send. req_id is the line's number on the connection.
HandleLine(k, line, e) ==
    LET req_id == h[k].lines + 1
        loc == [h[k] EXCEPT !.lines = req_id, !.line = line]
        params == line.params
        n == Len(params.items)
    IN
    IF line.kind \in {"blank", "badjson"} THEN
        HandlerSkips(k, loc, e)
    ELSE IF line.kind = "nonobject" THEN
        HandlerRaises(k, loc, e)
    ELSE IF line.method = "mining.subscribe" THEN
        IF FirstOrDefault(params, Str(UnknownWorker)) = Raise
        THEN HandlerRaises(k, loc, e)
        ELSE HandlerSend(k, send_result(req_id, "list", subscribe(loc)),
                         "set_difficulty", loc, e)
    ELSE IF line.method = "mining.authorize" THEN
        LET username == FirstOrDefault(params, Str(<<>>))
        IN IF username.t # "str"
           THEN HandlerRaises(k, loc, e)
           ELSE HandlerSend(k, send_result(req_id, "bool", TRUE), "inc_read",
                            authorize(loc, split(username.v)), e)
    ELSE IF line.method = "mining.submit" THEN
        IF params.shape \in {"scalar", "null"}
        THEN HandlerRaises(k, loc, e)
        ELSE IF n >= 4
        THEN LET nonce == IF n >= 5 THEN params.items[5] ELSE params.items[4]
             IN HandlerSend(k, send_result(req_id, "bool", TRUE), "loop",
                            [loc EXCEPT !.nonce = nonce.v], e)
        ELSE HandlerSend(k, send_error(req_id, InvalidParams, "Invalid params"),
                         "loop", loc, e)
    ELSE IF line.method = "mining.ping" THEN
        HandlerSend(k, send_result(req_id, "str", "pong"), "loop", loc, e)
    ELSE IF line.method = "mining.extranonce.subscribe" THEN
        HandlerSend(k, send_result(req_id, "bool", TRUE), "loop", loc, e)
    ELSE
        HandlerSend(k, send_error(req_id, MethodNotFound, "Method not found"),
                    "loop", loc, e)

\* recv returns a line from `lines` and the handler dispatches it.
HandlerRecv(k, lines) ==
    /\ hpc[k] = "recv"
    /\ peer[k] = "up"
    /\ env.lines > 0
    /\ \E line \in lines : HandleLine(k, line, [env EXCEPT !.lines = @ - 1])
    /\ UNCHANGED <<reader, node, running, session_id, clients, current_job_id, difficulty, apc, nconn,
                   sock, peer, b, minted, snaps>>

\* mining.subscribe, lines 145-149: the set_difficulty notification.
HandlerSetDifficulty(k) ==
    /\ hpc[k] = "set_difficulty"
    /\ HandlerSend(k, set_difficulty(difficulty), "loop", h[k], env)
    /\ UNCHANGED <<reader, node, running, session_id, clients, current_job_id, difficulty, apc, nconn,
                   sock, peer, b, minted, snaps>>

\* mining.authorize, line 165: `self.current_job_id += 1`, the read ...
HandlerIncRead(k) ==
    /\ hpc[k] = "inc_read"
    /\ h' = [h EXCEPT ![k].tmp = current_job_id]
    /\ hpc' = [hpc EXCEPT ![k] = "inc_write"]
    /\ UNCHANGED <<reader, node, running, session_id, clients, current_job_id, difficulty, apc, nconn,
                   sock, peer, out, b, minted, snaps, env>>

\* ... and the write.
HandlerIncWrite(k) ==
    /\ hpc[k] = "inc_write"
    /\ current_job_id' = h[k].tmp + 1
    /\ hpc' = [hpc EXCEPT ![k] = "job_id"]
    /\ h' = [h EXCEPT ![k].tmp = 0]
    /\ UNCHANGED <<reader, node, running, session_id, clients, difficulty, apc, nconn,
                   sock, peer, out, b, minted, snaps, env>>

\* create_job called at line 166: line 75.
HandlerJobId(k) ==
    /\ hpc[k] = "job_id"
    /\ h' = [h EXCEPT ![k].job_id = JobIdOf(current_job_id)]
    /\ hpc' = [hpc EXCEPT ![k] = "job_height"]
    /\ UNCHANGED <<reader, node, running, session_id, clients, current_job_id, difficulty, apc, nconn,
                   sock, peer, out, b, minted, snaps, env>>

\* create_job called at line 166: lines 88-94.
HandlerJob(k) ==
    /\ hpc[k] = "job_height"
    /\ LET job == create_job(h[k].job_id, current_job_id)
       IN /\ h' = [h EXCEPT ![k].job = job, ![k].job_id = <<>>]
          /\ minted' = minted \cup {[tick |-> 0, conn |-> k, line |-> h[k].lines, job |-> job]}
    /\ hpc' = [hpc EXCEPT ![k] = "notify"]
    /\ UNCHANGED <<reader, node, running, session_id, clients, current_job_id, difficulty, apc, nconn,
                   sock, peer, out, b, snaps, env>>

\* An authorize that leaves the job to the next broadcast tick.
HandlerNotifyLater(k) ==
    /\ hpc[k] = "notify"
    /\ hpc' = [hpc EXCEPT ![k] = LoopTest("recv")]
    /\ h' = [h EXCEPT ![k].job = NoJob]
    /\ UNCHANGED <<reader, node, running, session_id, clients, current_job_id, difficulty, apc, nconn,
                   sock, peer, out, b, minted, snaps, env>>

\* mining.authorize, line 167: the job is pushed to this connection.
HandlerNotify(k) ==
    /\ hpc[k] = "notify"
    /\ HandlerSend(k, send_notify(h[k].job, 0), "loop", [h[k] EXCEPT !.job = NoJob], env)
    /\ UNCHANGED <<reader, node, running, session_id, clients, current_job_id, difficulty, apc, nconn,
                   sock, peer, b, minted, snaps>>

\* `finally`, line 213: `if client in self.clients`.
HandlerFinallyCheck(k) ==
    /\ hpc[k] = "fin_check"
    /\ hpc' = [hpc EXCEPT ![k] = IF In(k, clients) THEN "fin_remove" ELSE "fin_close"]
    /\ UNCHANGED <<reader, node, running, session_id, clients, current_job_id, difficulty, apc, nconn,
                   h, sock, peer, out, b, minted, snaps, env>>

\* `finally`, line 214: self.clients.remove(client). list.remove raises
\* ValueError when the socket is no longer in the list: the thread ends there
\* and line 215 does not run.
HandlerFinallyRemove(k) ==
    /\ hpc[k] = "fin_remove"
    /\ IF In(k, clients)
       THEN /\ clients' = remove(clients, k)
            /\ hpc' = [hpc EXCEPT ![k] = "fin_close"]
       ELSE /\ hpc' = [hpc EXCEPT ![k] = "raised"]
            /\ UNCHANGED clients
    /\ UNCHANGED <<reader, node, running, session_id, current_job_id, difficulty, apc, nconn,
                   h, sock, peer, out, b, minted, snaps, env>>

\* `finally`, line 215: client.close().
HandlerClose(k) ==
    /\ hpc[k] = "fin_close"
    /\ sock' = [sock EXCEPT ![k] = "closed"]
    /\ hpc' = [hpc EXCEPT ![k] = "done"]
    /\ UNCHANGED <<reader, node, running, session_id, clients, current_job_id, difficulty, apc, nconn,
                   h, peer, out, b, minted, snaps, env>>

\* ------------------------------------------------------- the reader's buffer
\* Lines 109-118 at the level of bytes, for one connection. A byte is an ASCII
\* letter, a space, the newline, or the first ("c1") or second ("c2") byte of a
\* two-byte UTF-8 character; a character is a letter, a space, the newline or
\* that two-byte character ("U"). What is done with a line once it is cut from
\* the buffer is HandleLine; here the line is only recorded.
server == <<running, session_id, clients, current_job_id, difficulty, apc, nconn,
            hpc, h, sock, peer, out, b, minted, snaps, env>>
Newline == "\n"
ByteSet == {"a", " ", Newline, "c1", "c2"}

\* bytes.decode() (line 113) raises UnicodeDecodeError on a lone first or
\* second byte of a character.
WellFormed(bytes) ==
    \A i \in 1..Len(bytes) :
        /\ bytes[i] = "c1" => i < Len(bytes) /\ bytes[i + 1] = "c2"
        /\ bytes[i] = "c2" => i > 1 /\ bytes[i - 1] = "c1"
RECURSIVE decode(_)
decode(bytes) ==
    IF bytes = <<>> THEN <<>>
    ELSE IF Head(bytes) = "c1" THEN <<"U">> \o decode(Tail(Tail(bytes)))
    ELSE <<Head(bytes)>> \o decode(Tail(bytes))

\* The streams a miner may send: valid UTF-8 of at most MaxBytes bytes.
Streams == {s \in UNION {[1..n -> ByteSet] : n \in 0..MaxBytes} : WellFormed(s)}

\* `not line.strip()` (line 117).
IsBlank(line) == \A i \in 1..Len(line) : line[i] = " "
FirstNewline(s) == CHOOSE i \in 1..Len(s) : s[i] = Newline /\ \A j \in 1..(i - 1) : s[j] # Newline
\* `while '\n' in buffer` (lines 115-118): the buffer that is left and the lines
\* dispatched, starting from buffer `buf` and the lines `done` dispatched before.
RECURSIVE Frame(_, _)
Frame(buf, done) ==
    IF \A i \in 1..Len(buf) : buf[i] # Newline
    THEN [buffer |-> buf, dispatched |-> done]
    ELSE LET i == FirstNewline(buf)
             line == SubSeq(buf, 1, i - 1)
             rest == SubSeq(buf, i + 1, Len(buf))
         IN Frame(rest, IF IsBlank(line) THEN done ELSE Append(done, line))

\* client.recv(4096) returns the next n bytes (lines 109-118): they are decoded,
\* appended to the buffer, and every complete line is cut off and dispatched;
\* when decode raises, the handler ends through `except Exception` (line 209).
ReaderRecv ==
    /\ fpc = "recv"
    /\ \E n \in 1..(Len(stream) - rd) :
          LET data == SubSeq(stream, rd + 1, rd + n)
          IN /\ rd' = rd + n
             /\ IF WellFormed(data)
                THEN LET f == Frame(buffer \o decode(data), dispatched)
                     IN /\ buffer' = f.buffer
                        /\ dispatched' = f.dispatched
                        /\ fpc' = "recv"
                ELSE /\ fpc' = "raised"
                     /\ UNCHANGED <<buffer, dispatched>>
    /\ UNCHANGED <<server, node, stream>>

\* recv returns b"" after the last byte (lines 110-111): the loop ends and what
\* is left in the buffer is dropped.
ReaderEof ==
    /\ fpc = "recv"
    /\ rd = Len(stream)
    /\ fpc' = "eof"
    /\ UNCHANGED <<server, node, stream, rd, buffer, dispatched>>

\* ------------------------------------------------------- the mock chain node
\* mock_tos_node.py. The node is an HTTPServer (line 445), which handles one
\* request at a time: handle_method (lines 96-439) runs to its end before the
\* next request is read, so one request is one step. `result` is what
\* handle_method returns: its kind t and the heights v it carries.
StableDepth == 8
Handled1(method, t, v) == [method |-> method, result |-> [t |-> t, v |-> v],
                           count |-> rpc.count + 1]

\* A get_block_template that raises the height only.
GetBlockTemplateHeightOnly ==
    /\ rpc.count < MaxRpcs
    /\ height' = height + 1
    /\ topoheight' = topoheight
    /\ rpc' = Handled1("get_block_template", "template", <<height', topoheight'>>)
    /\ UNCHANGED <<server, reader>>

\* get_block_template (lines 101-118): both class attributes are raised and
\* the template carries the raised values.
GetBlockTemplate ==
    /\ rpc.count < MaxRpcs
    /\ height' = height + 1
    /\ topoheight' = topoheight + 1
    /\ rpc' = Handled1("get_block_template", "template", <<height', topoheight'>>)
    /\ UNCHANGED <<server, reader>>

\* The methods that read the heights: get_miner_work (lines 132-145),
\* get_topoheight (152), get_height (157), get_stable_height (162),
\* get_stable_topoheight (167), get_block_count (433).
NodeReads ==
    /\ rpc.count < MaxRpcs
    /\ \/ rpc' = Handled1("get_miner_work", "work", <<height, topoheight>>)
       \/ rpc' = Handled1("get_topoheight", "int", <<topoheight>>)
       \/ rpc' = Handled1("get_height", "int", <<height>>)
       \/ rpc' = Handled1("get_stable_height", "int", <<height - StableDepth>>)
       \/ rpc' = Handled1("get_stable_topoheight", "int", <<topoheight - StableDepth>>)
       \/ rpc' = Handled1("get_block_count", "int", <<topoheight>>)
    /\ UNCHANGED <<server, reader, height, topoheight>>

\* submit_block (lines 120-130): returns True, or raises when params has no
\* .get (a JSON array) and the request gets no response.
SubmitBlock ==
    /\ rpc.count < MaxRpcs
    /\ \/ rpc' = Handled1("submit_block", "true", <<>>)
       \/ rpc' = Handled1("submit_block", "raise", <<>>)
    /\ UNCHANGED <<server, reader, height, topoheight>>

\* A method the node does not know (lines 437-439): the result is None.
UnknownMethod ==
    /\ rpc.count < MaxRpcs
    /\ rpc' = Handled1("no_such_method", "null", <<>>)
    /\ UNCHANGED <<server, reader, height, topoheight>>

\* ---------------------------------------------------------------- the program
\* The broadcaster thread when every write is one send().
Broadcaster ==
    \/ BroadcasterTick
    \/ BroadcasterIncRead
    \/ BroadcasterIncWrite
    \/ BroadcasterJobId
    \/ BroadcasterJob
    \/ BroadcasterSnapshot
    \/ BroadcasterSend
    \/ BroadcasterTickDone

\* A handler thread's read loop and its `finally`.
HandlerIO(k, lines) ==
    \/ HandlerRecv(k, lines)
    \/ HandlerRecvEof(k)
    \/ HandlerFinallyCheck(k)
    \/ HandlerFinallyRemove(k)
    \/ HandlerClose(k)

\* The steps of mining.authorize after its response.
HandlerAuthorize(k) ==
    \/ HandlerIncRead(k)
    \/ HandlerIncWrite(k)
    \/ HandlerJobId(k)
    \/ HandlerJob(k)
    \/ HandlerNotify(k)

\* ---------------------------------------------------------------------- claims
Ended(k) == hpc[k] \in {"done", "raised"}
Accepted == 1..nconn
Notifies(k) == {i \in 1..Len(out[k]) : out[k][i].msg.method = "mining.notify"}
SameMsg(m1, m2) ==
    /\ m1.kind = m2.kind
    /\ m1.method = m2.method
    /\ m1.tag = m2.tag
    /\ m1.tick = m2.tick
    /\ m1.job = m2.job
    /\ m1.kind = "response" => m1.id = m2.id

\* C1: when a handler has deregistered its connection (and closes it) while a
\* tick is going over its copy of the registry, the broadcaster does not end
\* with an unhandled error, and the connection is no longer in the registry.
C1_BroadcasterSurvivesClose ==
    \A k \in Accepted :
        hpc[k] \in {"fin_close", "done"} => b.pc # "raised" /\ ~In(k, clients)

\* The value of a string of hexadecimal digits.
RECURSIVE HexValue(_)
HexValue(s) ==
    IF s = <<>> THEN 0
    ELSE 16 * HexValue(SubSeq(s, 1, Len(s) - 1))
         + (CHOOSE d \in 0..15 : HexChars[d + 1] = s[Len(s)])

\* The extranonce1 values that mining.subscribe has returned on connection k.
Returned(k) ==
    {out[k][i].msg.result.v[2] :
        i \in {j \in 1..Len(out[k]) : out[k][j].msg.tag = "list"}}

\* C2: any two connections ever accepted have different session ids and
\* different extranonce1 values, in the handler and in what mining.subscribe
\* returns; the ids increase strictly from 1 in the order of acceptance; an
\* extranonce1 is its session id written as exactly 8 hexadecimal digits.
C2_SessionIdsUnique ==
    /\ nconn >= 1 => h[1].session_id = 1
    /\ \A i, j \in Accepted :
        /\ i < j => h[i].session_id < h[j].session_id
        /\ i # j => h[i].extranonce1 # h[j].extranonce1
        /\ i # j => Returned(i) \cap Returned(j) = {}
    /\ \A i \in Accepted :
        /\ Len(h[i].extranonce1) = ExtranonceWidth
        /\ \A n \in 1..Len(h[i].extranonce1) :
              \E d \in 1..16 : HexChars[d] = h[i].extranonce1[n]
        /\ HexValue(h[i].extranonce1) = h[i].session_id
        /\ Returned(i) \subseteq {h[i].extranonce1}

\* A connection accepted when the first one has ended; both were subscribed.
C2_Witness ==
    /\ nconn = 2
    /\ hpc[1] = "done"
    /\ clients = <<2>>
    /\ Returned(1) # {}
    /\ Returned(2) # {}

\* C3: of two ticks that each mint a job, the later tick's job id is strictly
\* greater, whatever the mining.authorize handlers do to the counter meanwhile.
C3_TickJobIdsIncrease ==
    \A m1, m2 \in minted :
        m1.tick > 0 /\ m1.tick < m2.tick =>
            JobNumber(m1.job.id) < JobNumber(m2.job.id)

\* C4: the connections sent a mining.notify by one tick all get the same job,
\* and a tick that is over has sent to every connection of its copy of the
\* registry.
C4_TickSendsSameJobToAll ==
    /\ \A k1, k2 \in Accepted : \A i \in Notifies(k1) : \A j \in Notifies(k2) :
          out[k1][i].msg.tick > 0 /\ out[k1][i].msg.tick = out[k2][j].msg.tick
              => out[k1][i].msg.job = out[k2][j].msg.job
    /\ b.pc \notin {"send", "sendall", "remove"} => b.snap = <<>>

\* C5: a handler that has ended has left its connection out of the registry
\* and its socket closed.
C5_HandlerEndDeregistersAndCloses ==
    \A k \in Accepted : Ended(k) => ~In(k, clients) /\ sock[k] = "closed"

\* C6: after a transport error or disconnect on connection A, another
\* connection B that is registered, open and served by its handler still has a
\* broadcaster to send it the later jobs.
C6_ErrorsStayLocal ==
    \A A, B \in Accepted :
        /\ A # B
        /\ peer[A] = "gone" \/ h[A].why \in {"eof", "timeout", "send", "error"}
        /\ In(B, clients) /\ sock[B] = "open" /\ peer[B] = "up" /\ ~Ended(B)
        => b.pc # "raised"

\* C7: on one socket the first part of a message is followed by its second
\* part; no other message's bytes come in between.
C7_WritesNotInterleaved ==
    \A k \in Accepted : \A i \in 1..Len(out[k]) :
        i < Len(out[k]) /\ out[k][i].part = "head" =>
            /\ out[k][i + 1].part = "tail"
            /\ SameMsg(out[k][i + 1].msg, out[k][i].msg)

\* C8: the broadcaster handles a failed write to a connection by going on with
\* the rest of the tick, the connection out of the registry and its socket
\* closed.
C8_FailedBroadcastWrite ==
    [][b.pc = "remove" =>
          \/ b'.pc = "remove"
          \/ /\ b'.pc = "send"
             /\ ~In(b.cur, clients')
             /\ sock'[b.cur] = "closed"]_vars

\* What socket k's handler has written, without the broadcaster's messages.
FromHandler(e) == e.msg.tick = 0
Handled(k) == SelectSeq(out[k], FromHandler)
\* The handler of socket k takes a request for `method` off the wire in this step.
Receives(k, method) ==
    /\ hpc[k] = "recv"
    /\ h'[k].lines = h[k].lines + 1
    /\ h'[k].line.kind = "request"
    /\ h'[k].line.method = method
Answers(k, tag) ==
    /\ Len(out'[k]) = Len(out[k]) + 1
    /\ SubSeq(out'[k], 1, Len(out[k])) = out[k]
    /\ LET m == out'[k][Len(out'[k])].msg
       IN m.kind = "response" /\ m.id = <<h'[k].lines>> /\ m.tag = tag /\ m.error = NoError
Drops(k) == out'[k] = out[k] /\ hpc'[k] = "fin_check"
StringFirst(params) ==
    \/ params.shape \in {"absent", "null"}
    \/ params.shape = "list" /\ (params.items = <<>> \/ params.items[1].t = "str")

IsAuthorizeResponse(m) == m.kind = "response" /\ m.tag = "bool" /\ m.result.v = TRUE
IsJobPush(m) == m.method = "mining.notify" /\ m.tick = 0
Pushing(k) == hpc[k] \in {"inc_read", "inc_write", "job_id", "job_height", "notify"}

\* On each connection, what the handler wrote after a mining.authorize
\* response is one mining.notify with the 5 params of a job minted for that
\* request, unless that is still to come or its send failed; the handler
\* writes a mining.notify nowhere else.
PushFollowsAuthorize ==
    \A k \in Accepted :
        LET s == Handled(k)
        IN /\ \A i \in 1..Len(s) : IsAuthorizeResponse(s[i].msg) =>
                 IF i < Len(s)
                 THEN LET m == s[i + 1].msg
                      IN /\ IsJobPush(m)
                         /\ m.id = NullId
                         /\ Len(m.result.v) = 5
                         /\ m.result.v = <<m.job.id, m.job.header, m.job.target,
                                           m.job.height, m.job.clean_jobs>>
                         /\ \E r \in minted :
                               r.conn = k /\ <<r.line>> = s[i].msg.id /\ r.job = m.job
                 ELSE Pushing(k) \/ h[k].why = "send"
           /\ \A i \in 1..Len(s) : IsJobPush(s[i].msg) =>
                 i > 1 /\ IsAuthorizeResponse(s[i - 1].msg)

IsSubscribeResponse(m) == m.kind = "response" /\ m.tag = "list"
IsSetDifficulty(m) == m.method = "mining.set_difficulty"

\* On each connection a mining.subscribe response carries
\* [[["mining.notify", sid], ["mining.set_difficulty", sid]], extranonce1, 4]
\* for the connection's session id, and what the handler wrote next is one
\* mining.set_difficulty with id null and the current difficulty, unless that
\* is still to come or its send failed; the handler writes a
\* mining.set_difficulty nowhere else.
DifficultyFollowsSubscribe ==
    \A k \in Accepted :
        LET s == Handled(k)
            sid == h[k].session_id
        IN /\ \A i \in 1..Len(s) : IsSubscribeResponse(s[i].msg) =>
                 LET r == s[i].msg.result.v
                 IN /\ Len(r) = 3
                    /\ Len(r[1]) = 2
                    /\ \E x \in {r[1][1][2]} :
                          /\ r[1] = << <<"mining.notify", x>>, <<"mining.set_difficulty", x>> >>
                          /\ x # <<>> /\ x[1] # "0" /\ DecValue(x) = sid
                    /\ Len(r[2]) = 8
                    /\ HexValue(r[2]) = sid
                    /\ r[3] = 4
                    /\ IF i < Len(s)
                       THEN LET m == s[i + 1].msg
                            IN IsSetDifficulty(m) /\ m.id = NullId
                               /\ m.result.v = <<difficulty>>
                       ELSE hpc[k] = "set_difficulty" \/ h[k].why = "send"
           /\ \A i \in 1..Len(s) : IsSetDifficulty(s[i].msg) =>
                 i > 1 /\ IsSubscribeResponse(s[i - 1].msg)

Responds(k) ==
    /\ Len(out'[k]) = Len(out[k]) + 1
    /\ SubSeq(out'[k], 1, Len(out[k])) = out[k]
    /\ out'[k][Len(out'[k])].msg.kind = "response"
    /\ out'[k][Len(out'[k])].msg.id = <<h'[k].lines>>
    /\ out'[k][Len(out'[k])].part = "all"
Response(k) == out'[k][Len(out'[k])].msg
\* The handler of socket k is back at recv on an open, registered socket, and
\* the step minted no job and left the counter alone.
StaysOpen(k) ==
    /\ hpc'[k] = "recv"
    /\ sock'[k] = "open"
    /\ In(k, clients')
    /\ clients' = clients
    /\ minted' = minted
    /\ current_job_id' = current_job_id
\* params as a sequence: a JSON array, or missing (req.get gives []).
IsSequence(params) == params.shape \in {"list", "absent"}

C12_NonceIsLastParam ==
    [][\A k \in Conns :
          (/\ Receives(k, "mining.submit")
           /\ IsSequence(h'[k].line.params)
           /\ Len(h'[k].line.params.items) >= 4) =>
             h'[k].nonce = h'[k].line.params.items[Len(h'[k].line.params.items)].v]_vars

\* The five methods of the dispatch (lines 128, 151, 169, 193, 197).
KnownMethods == {"mining.subscribe", "mining.authorize", "mining.submit", "mining.ping",
                 "mining.extranonce.subscribe"}
\* Params that the method cannot use: not a list (null, a number) where the
\* method reads params, a first element of mining.authorize that is not a
\* string, fewer than 4 elements for mining.submit.
MalformedParams(line) ==
    \/ /\ line.method \in {"mining.subscribe", "mining.authorize", "mining.submit"}
       /\ line.params.shape \in {"null", "scalar"}
    \/ /\ line.method = "mining.authorize"
       /\ line.params.shape = "list"
       /\ line.params.items # <<>>
       /\ line.params.items[1].t # "str"
    \/ /\ line.method = "mining.submit"
       /\ IsSequence(line.params)
       /\ Len(line.params.items) < 4
ProtocolError(line) ==
    /\ line.kind = "request"
    /\ line.method \notin KnownMethods \/ MalformedParams(line)

\* C13: a request that is a protocol error (unknown method, malformed params)
\* is answered on its connection with an error object, -32601 for an unknown
\* method, and the connection stays open and registered with its handler back
\* at recv.
C13_ProtocolErrorsAnswered ==
    [][\A k \in Conns :
          (/\ hpc[k] = "recv"
           /\ h'[k].lines = h[k].lines + 1
           /\ ProtocolError(h'[k].line)) =>
             /\ Responds(k)
             /\ Response(k).error # NoError
             /\ h'[k].line.method \notin KnownMethods =>
                   Response(k).error = <<-32601, "Method not found", Null>>
             /\ StaysOpen(k)]_vars

\* The locals of socket k's handler that make its session: everything but the
\* count of lines read and the line read last.
Session(loc) == [loc EXCEPT !.lines = 0, !.line = BlankLine]

\* C14: a line that is blank or is not JSON gets no response and changes
\* neither the session nor the registry; the connection stays open with its
\* handler back at recv, where the next line is read.
C14_InvalidLineSkipped ==
    [][\A k \in Conns :
          (/\ hpc[k] = "recv"
           /\ h'[k].lines = h[k].lines + 1
           /\ h'[k].line.kind \in {"blank", "badjson"}) =>
             /\ out' = out
             /\ Session(h'[k]) = Session(h[k])
             /\ difficulty' = difficulty
             /\ StaysOpen(k)]_vars

\* A connection authorized, then sent a line that is not JSON, then had a ping
\* answered: the third line was dispatched with the session of the first.
C14_Witness ==
    \E k \in Accepted :
        /\ h[k].lines = 3
        /\ h[k].authorized
        /\ h[k].line = Ping
        /\ Len(out[k]) = 3
        /\ out[k][3].msg.id = <<3>>
        /\ out[k][3].msg.result = [t |-> "str", v |-> "pong"]
        /\ \A i \in 1..3 : out[k][i].msg.id # <<2>>

\* The messages of tick t written to socket k.
TickSends(k, t) ==
    {i \in 1..Len(out[k]) : out[k][i].msg.method = "mining.notify" /\ out[k][i].msg.tick = t}

\* C15: in one tick a connection is sent the job at most once, and only if it
\* was in the registry when the tick took its copy; the copy is the registry as
\* it is at that step, so a connection deregistered before it is not in it.
C15_SnapshotDelivery ==
    /\ [](\A k \in Conns : \A t \in 1..b.tick :
             /\ Cardinality(TickSends(k, t)) <= 1
             /\ TickSends(k, t) # {} => In(k, snaps[t]))
    /\ [][b.pc = "snapshot" /\ b'.pc # "snapshot" =>
             /\ snaps'[b.tick] = clients
             /\ b'.snap = clients]_vars

\* Two connections were sent the job of tick 1; one was deregistered before
\* tick 2 took its copy and was not sent the job of tick 2, the other was.
C15_Witness ==
    \E k, j \in Accepted :
        /\ b.tick = 2
        /\ b.pc = "sleep"
        /\ TickSends(k, 1) # {}
        /\ TickSends(j, 1) # {}
        /\ ~In(k, snaps[2])
        /\ TickSends(k, 2) = {}
        /\ Cardinality(TickSends(j, 2)) = 1

\* The jobs create_job returned to tick t.
MintedAt(t) == {r \in minted : r.tick = t}
BeforeMint == {"inc_read", "inc_write", "job_id", "job_height"}
AfterMint == {"snapshot", "send", "sendall", "remove", "raised"}

\* C16: a tick that finds a connection registered mints exactly one job: none
\* while it raises the counter and formats the id, one from then on, and no
\* tick ever more than one. A tick that finds the registry empty goes back to
\* sleep in the same step, with no job minted, nothing sent and the counter as
\* it was, and no job is minted for it later.
C16_OneJobPerTick ==
    /\ [](/\ \A t \in 1..b.tick : Cardinality(MintedAt(t)) <= 1
          /\ b.pc \in BeforeMint => MintedAt(b.tick) = {}
          /\ b.pc \in AfterMint => Cardinality(MintedAt(b.tick)) = 1
          /\ \A t \in 1..b.tick : \A k \in Conns :
                MintedAt(t) = {} => TickSends(k, t) = {})
    /\ [][/\ b'.tick # b.tick =>
                /\ b'.tick = b.tick + 1
                /\ IF clients # <<>>
                   THEN b'.pc = "inc_read"
                   ELSE /\ b'.pc = "sleep"
                        /\ minted' = minted
                        /\ out' = out
                        /\ current_job_id' = current_job_id
          /\ \A t \in 1..b.tick : MintedAt(t)' # MintedAt(t) =>
                t = b.tick /\ b.pc = "job_height"]_vars

\* The first tick found the registry empty and minted nothing; the second
\* found a connection, minted one job and sent it.
C16_Witness ==
    /\ b.tick = 2
    /\ b.pc = "sleep"
    /\ MintedAt(1) = {}
    /\ Cardinality(MintedAt(2)) = 1
    /\ \E k \in Accepted : TickSends(k, 2) # {}
    /\ \A k \in Accepted : TickSends(k, 1) = {}

\* The handler keeps no subscribed flag; a connection has subscribed when it
\* has been sent a subscribe result.
Subscribed(k) == \E i \in 1..Len(out[k]) : IsSubscribeResponse(out[k][i].msg)

\* C17: on every connection, no step of any thread takes `authorized` from
\* true to false or makes a subscribed connection not subscribed.
C17_FlagsOnlyRise ==
    [][\A k \in Conns :
          /\ h[k].authorized => h'[k].authorized
          /\ Subscribed(k) => Subscribed(k)']_vars

\* A connection authorized twice, the second time as "addr", and then sent an
\* unknown method: it is still authorized.
C17_Witness ==
    \E k \in Accepted :
        /\ h[k].lines = 3
        /\ h[k].line = Unknown
        /\ hpc[k] = "recv"
        /\ h[k].authorized
        /\ h[k].address = AddrOnly
        /\ Len(out[k]) = 5
        /\ IsAuthorizeResponse(out[k][1].msg)
        /\ IsAuthorizeResponse(out[k][3].msg)
        /\ out[k][1].msg.id = <<1>>
        /\ out[k][3].msg.id = <<2>>

HasDot(s) == \E i \in 1..Len(s) : s[i] = "."

\* C18: a mining.authorize whose params[0] is a string with a dot records as
\* address the part before the first dot (so the address has no dot) and as
\* worker everything after it: address, ".", worker is params[0] again. For a
\* string without a dot the address is the string and the worker is "default".
C18_SplitAtFirstDot ==
    [][\A k \in Conns :
          (/\ Receives(k, "mining.authorize")
           /\ h'[k].line.params.shape = "list"
           /\ h'[k].line.params.items # <<>>
           /\ h'[k].line.params.items[1].t = "str") =>
             LET username == h'[k].line.params.items[1].v
             IN IF HasDot(username)
                THEN /\ ~HasDot(h'[k].address)
                     /\ h'[k].address \o <<".">> \o h'[k].worker = username
                ELSE /\ h'[k].address = username
                     /\ h'[k].worker = <<"d","e","f","a","u","l","t">>]_vars

\* One connection authorized as "a.w.x": address "a", worker "w.x"; another as
\* "addr": address "addr", worker "default".
C18_Witness ==
    \E k, j \in Accepted :
        /\ h[k].line = AuthorizeTwoDots
        /\ h[k].authorized
        /\ h[k].address = <<"a">>
        /\ h[k].worker = <<"w",".","x">>
        /\ h[j].line = AuthorizeNoDot
        /\ h[j].authorized
        /\ h[j].address = <<"a","d","d","r">>
        /\ h[j].worker = <<"d","e","f","a","u","l","t">>

\* C19: mining.ping is answered with result "pong" and
\* mining.extranonce.subscribe with result true: one response with the
\* request's id and a null error, nothing else written to any socket, and the
\* session, the registry, the job counter, the minted jobs and the difficulty
\* as they were.
C19_PingAndExtranonceSubscribe ==
    [][\A k \in Conns : \A method \in {"mining.ping", "mining.extranonce.subscribe"} :
          Receives(k, method) =>
             /\ Responds(k)
             /\ Response(k).result = IF method = "mining.ping"
                                     THEN [t |-> "str", v |-> "pong"]
                                     ELSE [t |-> "bool", v |-> TRUE]
             /\ Response(k).error = NoError
             /\ Response(k).method = Null
             /\ \A j \in Conns \ {k} : out'[j] = out[j]
             /\ Session(h'[k]) = Session(h[k])
             /\ difficulty' = difficulty
             /\ StaysOpen(k)]_vars

\* An authorized connection had a ping and then an extranonce.subscribe
\* answered, as its second and third requests, and is authorized as before.
C19_Witness ==
    \E k \in Accepted :
        /\ h[k].authorized
        /\ h[k].lines = 3
        /\ h[k].line = ExtranonceSubscribe
        /\ Len(out[k]) = 4
        /\ IsJobPush(out[k][2].msg)
        /\ out[k][3].msg.result = [t |-> "str", v |-> "pong"]
        /\ out[k][3].msg.id = <<2>>
        /\ out[k][4].msg.result = [t |-> "bool", v |-> TRUE]
        /\ out[k][4].msg.id = <<3>>

\* C20: once stop() has cleared `running`, no further connection is accepted
\* and no sleep of the broadcaster that ends starts a broadcast (which mints a
\* job and sends it).
C20_StopEndsAcceptAndBroadcast ==
    [][~running /\ apc # "init" =>
          /\ nconn' = nconn
          /\ b'.tick # b.tick => b'.pc \notin BeforeMint]_vars

\* What the first client of a fresh server reads when it runs the session
\* alone, message by message: the field of each message that carries its
\* content, and its id.
FirstSession ==
    << [kind |-> "response", id |-> <<1>>, method |-> Null,
        result |-> [t |-> "list",
                    v |-> << << <<"mining.notify", <<"1">> >>,
                                <<"mining.set_difficulty", <<"1">> >> >>,
                             <<"0","0","0","0","0","0","0","1">>, 4 >>]],
       [kind |-> "notification", id |-> NullId, method |-> "mining.set_difficulty",
        result |-> [t |-> "difficulty", v |-> <<1000000>>]],
       [kind |-> "response", id |-> <<2>>, method |-> Null,
        result |-> [t |-> "bool", v |-> TRUE]],
       [kind |-> "notification", id |-> NullId, method |-> "mining.notify",
        result |-> [t |-> "job",
                    v |-> << <<"j","o","b","_","0","0","0","0","0","1">>,
                             HeaderOf(<<"j","o","b","_","0","0","0","0","0","1">>),
                             Target, 1000001, TRUE >>]],
       [kind |-> "response", id |-> <<3>>, method |-> Null,
        result |-> [t |-> "bool", v |-> TRUE]] >>
\* Message m as written is the expected message e, whole and without an error.
IsMessage(m, e) ==
    /\ m.part = "all"
    /\ m.msg.kind = e.kind
    /\ m.msg.id = e.id
    /\ m.msg.method = e.method
    /\ m.msg.result.t = e.result.t
    /\ m.msg.result = e.result
    /\ m.msg.error = NoError
\* The first client has run the session and no other client has sent a line.
RanAlone(k) ==
    /\ k = 1
    /\ \A j \in Conns \ {k} : h[j].lines = 0
    /\ b.tick = 0

C22_CounterCountsMints ==
    /\ [](\A r1, r2 \in minted : r1.job.id = r2.job.id => r1 = r2)
    /\ [][/\ current_job_id' >= current_job_id
          /\ (\/ b.pc = "inc_write" /\ b'.pc # "inc_write"
              \/ \E k \in Conns : hpc[k] = "inc_write" /\ hpc'[k] # "inc_write") =>
                current_job_id' = current_job_id + 1]_vars

\* C23: a connection is authorized (its mining.authorize answered with true,
\* its job pushed) only after its mining.subscribe was answered, and no step
\* takes a connection back from authorized or from subscribed.
C23_SubscribeBeforeAuthorize ==
    /\ [](\A k \in Accepted :
             /\ h[k].authorized => Subscribed(k)
             /\ \A i \in 1..Len(out[k]) :
                   IsJobPush(out[k][i].msg) =>
                      \E j \in 1..(i - 1) : IsSubscribeResponse(out[k][j].msg))
    /\ [][\A k \in Conns :
             /\ h[k].authorized => h'[k].authorized
             /\ Subscribed(k) => Subscribed(k)']_vars

\* The subscribe results written to socket k, in order.
SubscribeResults(k) ==
    LET IsSub(e) == IsSubscribeResponse(e.msg)
    IN SelectSeq(out[k], IsSub)

\* C24: every mining.subscribe with usable params, first or repeated, before
\* or after any other request, is answered with the same result on its
\* connection, the one of the connection's session id and extranonce1 with
\* size 4, and changes neither the handler's session, nor the registry, nor
\* the job counter.
C24_SubscribeIdempotent ==
    /\ [](\A k \in Accepted : \A i \in 1..Len(SubscribeResults(k)) :
             /\ SubscribeResults(k)[i].msg.result = SubscribeResults(k)[1].msg.result
             /\ SubscribeResults(k)[i].msg.result.v[2] = h[k].extranonce1
             /\ DecValue(SubscribeResults(k)[i].msg.result.v[1][1][2]) = h[k].session_id
             /\ SubscribeResults(k)[i].msg.result.v[3] = 4)
    /\ [][\A k \in Conns :
             Receives(k, "mining.subscribe") /\ h'[k].line.params.shape # "scalar" =>
                /\ Responds(k)
                /\ IsSubscribeResponse(Response(k))
                /\ Session(h'[k]) = Session(h[k])
                /\ clients' = clients
                /\ current_job_id' = current_job_id
                /\ minted' = minted
                /\ difficulty' = difficulty]_vars

\* A connection subscribed, authorized and subscribed again: two subscribe
\* results, the second after the job push, and still authorized.
C24_Witness ==
    \E k \in Accepted :
        /\ h[k].lines = 3
        /\ h[k].authorized
        /\ Len(SubscribeResults(k)) = 2
        /\ Len(out[k]) >= 5
        /\ IsSubscribeResponse(out[k][1].msg)
        /\ IsJobPush(out[k][4].msg)
        /\ IsSubscribeResponse(out[k][5].msg)
        /\ out[k][5].msg.id = <<3>>

\* C26: every minted job has height 1000000 plus the number its id encodes.
C26_HeightMatchesJobId ==
    \A r \in minted : r.job.height = 1000000 + JobNumber(r.job.id)

\* The stream read in one piece.
InOneRead == Frame(decode(stream), <<>>)
IsPrefix(s, t) == Len(s) <= Len(t) /\ SubSeq(t, 1, Len(s)) = s

\* C25: however the stream is cut into reads, the handler does not fail on a
\* read, the lines dispatched so far are the first lines of what one read of
\* the whole stream dispatches, and once every byte has arrived they are all
\* of them, with the same partial line left in the buffer.
C25_ReadsDoNotMatter ==
    /\ fpc # "raised"
    /\ IsPrefix(dispatched, InOneRead.dispatched)
    /\ rd = Len(stream) => /\ dispatched = InOneRead.dispatched
                           /\ buffer = InOneRead.buffer

\* C27: in the mock chain node height and topoheight are equal between
\* requests and never decrease; get_block_template raises each by exactly 1
\* and returns the raised values; every other method, an unknown one included
\* (whose result is null), leaves both as they were.
C27_HeightsMoveTogether ==
    /\ [](height = topoheight)
    /\ [][/\ height' >= height
          /\ topoheight' >= topoheight
          /\ rpc'.count = rpc.count + 1 =>
                IF rpc'.method = "get_block_template"
                THEN /\ height' = height + 1
                     /\ topoheight' = topoheight + 1
                     /\ rpc'.result.v = <<height', topoheight'>>
                ELSE /\ height' = height
                     /\ topoheight' = topoheight
                     /\ rpc'.method = "no_such_method" => rpc'.result.t = "null"]_vars

\* Two templates and then an unknown method: both heights are 1000002 and the
\* last result is null.
C27_Witness ==
    /\ rpc.count = 3
    /\ rpc.method = "no_such_method"
    /\ rpc.result.t = "null"
    /\ height = 1000002
    /\ topoheight = 1000002

\* ------------------------------------------------------------ specifications
\* Spec: connections come and go while the broadcaster ticks. Miners send
\* mining.ping, close their connection or stay idle until the timeout.
Init == InitWith(MaxTicks, MaxLines, 0, MaxTimeouts, MaxCloses)
Next ==
    \/ Start
    \/ Accept
    \/ Broadcaster
    \/ BroadcasterRemove
    \/ \E k \in Conns : HandlerIO(k, {Ping}) \/ HandlerTimeout(k) \/ PeerCloses(k)
Spec == Init /\ [][Next]_vars

\* SpecJobs: the job counter. Miners send mining.authorize while the
\* broadcaster ticks; no connection ends.
InitJobs == InitWith(MaxTicks, MaxLines, 0, 0, 0)
NextJobs ==
    \/ Start
    \/ Accept
    \/ Broadcaster
    \/ \E k \in Conns : HandlerRecv(k, {AuthorizeDot}) \/ HandlerAuthorize(k)
SpecJobs == InitJobs /\ [][NextJobs]_vars

\* SpecProto: the handshake. Miners send mining.subscribe and mining.authorize
\* with well-formed and malformed params, and may close their connection, while
\* the broadcaster ticks once.
ProtoLines == {Subscribe, SubscribeScalar, AuthorizeDot, AuthorizeNumber}
InitProto == InitWith(OneTick, MaxLines, 0, 0, MaxCloses)
NextProto ==
    \/ Start
    \/ Accept
    \/ Broadcaster
    \/ BroadcasterRemove
    \/ \E k \in Conns : \/ HandlerIO(k, ProtoLines)
                        \/ HandlerSetDifficulty(k)
                        \/ HandlerAuthorize(k)
                        \/ PeerCloses(k)
SpecProto == InitProto /\ [][NextProto]_vars

\* SpecLines: the dispatch. Miners send every kind of line, in any order, and
\* stay connected; the broadcaster sleeps.
InitLines == InitWith(0, ThreeLines, 0, 0, 0)
NextLines ==
    \/ Start
    \/ Accept
    \/ \E k \in Conns : \/ HandlerRecv(k, AllLines)
                        \/ HandlerSetDifficulty(k)
                        \/ HandlerAuthorize(k)
                        \/ HandlerFinallyCheck(k)
                        \/ HandlerFinallyRemove(k)
                        \/ HandlerClose(k)
SpecLines == InitLines /\ [][NextLines]_vars

\* SpecStop: stop() is called at any moment while connections are accepted,
\* miners send mining.ping and the broadcaster ticks.
InitStop == InitWith(MaxTicks, MaxLines, 0, 0, 0)
NextStop ==
    \/ Start
    \/ Stop
    \/ Accept
    \/ AcceptLoop
    \/ Broadcaster
    \/ BroadcasterRemove
    \/ BroadcasterLoop
    \/ \E k \in Conns : \/ HandlerRecv(k, {Ping})
                        \/ HandlerLoop(k)
                        \/ HandlerFinallyCheck(k)
                        \/ HandlerFinallyRemove(k)
                        \/ HandlerClose(k)
SpecStop == InitStop /\ [][NextStop]_vars

\* SpecSession: every miner runs the session of the test client: subscribe,
\* authorize, a submit of 4 params, each sent when the previous one was
\* handled, SessionLines lines in all; the broadcaster sleeps.
SessionScript == <<Subscribe, AuthorizeDot, Submit4>>
\* The miner of socket k sends the next line of the session.
SessionRecv(k) ==
    /\ h[k].lines < Len(SessionScript)
    /\ HandlerRecv(k, {SessionScript[h[k].lines + 1]})
InitSession == InitWith(0, SessionLines, 0, 0, 0)
NextSession ==
    \/ Start
    \/ Accept
    \/ \E k \in Conns : \/ SessionRecv(k)
                        \/ HandlerSetDifficulty(k)
                        \/ HandlerAuthorize(k)
SpecSession == InitSession /\ [][NextSession]_vars

\* SpecFraming: one miner's bytes arrive in reads of any sizes.
InitFraming ==
    /\ InitServer(0, 0, 0, 0, 0)
    /\ InitChain
    /\ stream \in Streams
    /\ rd = 0
    /\ buffer = <<>>
    /\ dispatched = <<>>
    /\ fpc = "recv"
NextFraming == ReaderRecv \/ ReaderEof
SpecFraming == InitFraming /\ [][NextFraming]_vars

\* SpecNode: the mock chain node answers up to MaxRpcs requests.
InitNode == InitWith(0, 0, 0, 0, 0)
NextNode == GetBlockTemplate \/ NodeReads \/ SubmitBlock \/ UnknownMethod
SpecNode == InitNode /\ [][NextNode]_vars

\* SpecWire: the bytes on one socket. sendall may need two send() calls while
\* the handler answers a mining.ping and the broadcaster ticks.
InitWire == InitWith(OneTick, OneLine, MaxShorts, 0, 0)
NextWire ==
    \/ Start
    \/ Accept
    \/ Broadcaster
    \/ BroadcasterSendRest
    \/ \E k \in Conns : HandlerRecv(k, {Ping}) \/ HandlerSendRest(k)
SpecWire == InitWire /\ [][NextWire]_vars

====
